---- MODULE Spec2Model ----
(***************************************************************************)
(* A state-machine model of src/server.js: the express application with    *)
(* its bearer-token guard (auth), the credential routes (/register,        *)
(* /login), the document routes (/upload, /documents, /productions,        *)
(* /download/:id), the diagnostic routes (/db, /status) and the two stores *)
(* behind them (the MySQL tables and the S3 bucket), and the node process  *)
(* that runs it, from the check of JWT_SECRET at its start to its end.     *)
(*                                                                         *)
(* A request occupies a slot of req.  The synchronous part of a route (the *)
(* guard, and everything up to the first await) is one action; after that  *)
(* every await of the handler is one action, so that requests interleave   *)
(* exactly where the event loop lets them.                                 *)
(***************************************************************************)
EXTENDS Integers, Sequences, FiniteSets, TLC

VARIABLES
    clk,        \* index into Instants: the wall clock, Date.now() = Now
    users,      \* rows of table users
    documents,  \* rows of table documents
    bucket,     \* the S3 bucket: a set of [key, body], one per key
    issued,     \* history: the tokens jwt.sign produced, and when
    sent,       \* history: per document row, what its upload carried
    stored,     \* history: every file put into the bucket, and when keyed
    inUse,      \* connections checked out of pool and not released
    faults,     \* dependency failures (database, S3) injected so far
    proc,       \* the node process: its state, its environment, its open reads
    req         \* the request slots

vars ==
    <<clk, users, documents, bucket, issued, sent, stored, inUse, faults, proc,
      req>>

(***************************************************************************)
(* Bounds of the model and constants of the program.                       *)
(***************************************************************************)
MaxDocs == 2      \* rows the documents table may grow to
MaxFaults == 1    \* dependency failures injected in one run
ConnectionLimit == 2 \* connections of pool (mysql2 creates up to 10)
MaxDocClk == 2    \* instants the document specification lets the clock visit
MaxReads == 1     \* object reads a client may leave behind by going away

MsPerSec == 1000  \* Date.now() counts milliseconds, a token's iat/exp seconds
ExpiresIn == 3600 \* expiresIn: '1h'

\* The request slots: two requests are in flight at the same time.
Reqs == {1, 2}

Secret == "JWT_SECRET"
Unset == "undefined"
CompanyIds == {1, 2}
Usernames == {"alice", "bob"}
Passwords == {"pw1", "pw2"}
Salts == {"s1"}
FileNames == {"a.pdf", "b.pdf"}
Contents == {"x", "y"}
Versions == {"v1"}

\* Tables the program only reads: companies and productions.
companies == {[id |-> 1, name |-> "c1"], [id |-> 2, name |-> "c2"]}
productions ==
    {[id |-> 1, name |-> "p1", company_id |-> 1],
     [id |-> 2, name |-> "p2", company_id |-> 2]}
ProductionIds == {p.id : p \in productions}

(***************************************************************************)
(* The clock.  Instants are the moments at which the model looks at the    *)
(* wall clock, in milliseconds: around the start, around one second and    *)
(* around the expiry of tokens issued in the first two seconds.            *)
(***************************************************************************)
Lifetime == ExpiresIn * MsPerSec
Instants ==
    <<0, 1, MsPerSec, Lifetime - 1, Lifetime, Lifetime + 1,
      Lifetime + MsPerSec - 1, Lifetime + MsPerSec, Lifetime + MsPerSec + 1>>
Now == Instants[clk]
NowSec == Now \div MsPerSec     \* Math.floor(Date.now() / 1000)

(***************************************************************************)
(* The process.  It starts with its environment, in which JWT_SECRET is    *)
(* set or not, runs the top level of the script and listens; it ends by    *)
(* process.exit or by an exception nothing catches.  reads counts the      *)
(* object reads (GetObject bodies) s3Client has open.                      *)
(***************************************************************************)
Process(state, secret) ==
    [state |-> state, JWT_SECRET |-> secret, reads |-> 0]
JWT_SECRET == proc.JWT_SECRET       \* process.env.JWT_SECRET

\* if (!process.env.JWT_SECRET) process.exit(1), the script's top level
\* up to app.listen otherwise.
startNoCheck(secret) == "listening"
start(secret) == IF secret = Unset THEN "exited" ELSE "listening"

(***************************************************************************)
(* bcrypt: hash salts the password and digests it; compare recomputes the  *)
(* digest with the salt stored in the verifier.                            *)
(***************************************************************************)
Digest(salt, password) == <<"bcrypt", salt, password>>
hash(password, salt) == [salt |-> salt, digest |-> Digest(salt, password)]
compare(password, verifier) == verifier.digest = Digest(verifier.salt, password)

(***************************************************************************)
(* jsonwebtoken.  A token is its payload and the key that signed it.       *)
(* sign stamps iat with the clock in whole seconds and exp = iat + 3600;   *)
(* verify accepts a token signed with the secret whose exp is after the    *)
(* clock in whole seconds.                                                 *)
(***************************************************************************)
sign(id, company_id, secret, nowSec) ==
    [kind |-> "jwt", id |-> id, company_id |-> company_id,
     iat |-> nowSec, exp |-> nowSec + ExpiresIn, sig |-> secret]
Garbage == [kind |-> "garbage"]
Forged(id, company_id) ==
    [kind |-> "jwt", id |-> id, company_id |-> company_id,
     iat |-> 0, exp |-> 3 * ExpiresIn, sig |-> "other"]

\* "ok", or the error jwt.verify throws
verifyExpLax(token, secret, nowSec) ==
    IF token.kind # "jwt" THEN "JsonWebTokenError"
    ELSE IF token.sig # secret THEN "JsonWebTokenError"
    ELSE IF nowSec > token.exp THEN "TokenExpiredError"
    ELSE "ok"
verify(token, secret, nowSec) ==
    IF token.kind # "jwt" THEN "JsonWebTokenError"
    ELSE IF token.sig # secret THEN "JsonWebTokenError"
    ELSE IF nowSec >= token.exp THEN "TokenExpiredError"
    ELSE "ok"
Claim(token) ==
    [id |-> token.id, company_id |-> token.company_id,
     iat |-> token.iat, exp |-> token.exp]
NoUser == [id |-> 0]

(***************************************************************************)
(* The Authorization header.  Its value is a sequence of parts: the word   *)
(* "Bearer " or a token.  replace('Bearer ', '') drops the first "Bearer ".*)
(***************************************************************************)
Bearer == [kind |-> "Bearer "]
NoHeader == [present |-> FALSE, value |-> <<>>]
HeaderOf(value) == [present |-> TRUE, value |-> value]
HeadersOf(tokens) ==
    {NoHeader, HeaderOf(<<>>)}
        \cup {HeaderOf(<<Bearer, t>>) : t \in tokens}
        \cup {HeaderOf(<<t>>) : t \in tokens}

RECURSIVE replaceBearer(_)
replaceBearer(value) ==
    IF value = <<>> THEN <<>>
    ELSE IF Head(value) = Bearer THEN Tail(value)
    ELSE <<Head(value)>> \o replaceBearer(Tail(value))

(***************************************************************************)
(* auth, the guard.  The outcome is what it did with the request: threw    *)
(* (no header to call replace on), answered 401, or called next() with the *)
(* claim attached.                                                         *)
(***************************************************************************)
GuardOut(result, status, text, user) ==
    [result |-> result, status |-> status, text |-> text, user |-> user]
authNoVerify(header, nowSec) ==
    IF ~header.present THEN GuardOut("throw", 500, "TypeError", NoUser)
    ELSE LET token == replaceBearer(header.value) IN
        IF token = <<>> THEN GuardOut("denied", 401, "Access denied", NoUser)
        ELSE IF Len(token) = 1 /\ token[1].kind = "jwt"
             THEN GuardOut("next", 0, "", Claim(token[1]))
        ELSE GuardOut("invalid", 401, "Invalid token", NoUser)
auth(header, nowSec) ==
    IF ~header.present THEN GuardOut("throw", 500, "TypeError", NoUser)
    ELSE LET token == replaceBearer(header.value) IN
        IF token = <<>> THEN GuardOut("denied", 401, "Access denied", NoUser)
        ELSE IF Len(token) = 1 /\ verify(token[1], JWT_SECRET, nowSec) = "ok"
             THEN GuardOut("next", 0, "", Claim(token[1]))
        ELSE GuardOut("invalid", 401, "Invalid token", NoUser)

(***************************************************************************)
(* Requests.                                                               *)
(***************************************************************************)
ProtectedNoDownload ==
    {"/upload", "/productions", "/documents", "/validate-token", "/user"}
Protected ==
    {"/upload", "/productions", "/documents", "/download", "/validate-token",
     "/user"}
Unprotected == {"/db", "/status", "/register", "/login"}

NoFile == [present |-> FALSE, originalname |-> "", content |-> ""]
FileOf(name, content) ==
    [present |-> TRUE, originalname |-> name, content |-> content]
NoIn ==
    [username |-> "", password |-> "", company_id |-> 0, id |-> 0,
     production_id |-> 0, version |-> "", file |-> NoFile]
NoToken == [kind |-> "none"]
NoKey == [ts |-> -1, name |-> ""]
NoVerifier == [salt |-> "", digest |-> <<>>]

\* What a request has been answered with; status 0: not answered yet.
NoRes ==
    [status |-> 0, text |-> "", err |-> "", rows |-> {}, token |-> NoToken,
     attachment |-> "", body |-> ""]
Text(status, text) == [NoRes EXCEPT !.status = status, !.text = text]
Failure(status, text, err) ==
    [NoRes EXCEPT !.status = status, !.text = text, !.err = err]
Json(rows) == [NoRes EXCEPT !.status = 200, !.rows = rows]

IdleReq ==
    [pc |-> "idle", route |-> "none", hdr |-> NoHeader, in |-> NoIn,
     guard |-> "none", user |-> NoUser, nexts |-> 0, calls |-> 0,
     db |-> 0, s3 |-> 0, conn |-> FALSE, key |-> NoKey, keyAt |-> -1,
     hashed |-> NoVerifier, row |-> NoUser, docId |-> 0, res |-> NoRes,
     read |-> "none", client |-> "here"]

\* The first suspension point of each route's handler chain.
FirstPcNoStorage(route) ==
    CASE route = "/register" -> "hash"
      [] OTHER -> "getConnection"
FirstPc(route) ==
    CASE route = "/upload" -> "multer"
      [] route = "/register" -> "hash"
      [] OTHER -> "getConnection"

\* What the catch block of a route's handler answers.
catch(route, err) ==
    IF route \in {"/register", "/login", "/user"}
    THEN Failure(400, "err.message", err)
    ELSE Failure(200, "Error", err)

Respond(r, res) == [req[r] EXCEPT !.pc = "done", !.res = res]

(***************************************************************************)
(* A request arrives and runs up to its first await: for a protected route *)
(* the guard, then for /validate-token the whole handler.  A throw of the  *)
(* guard is answered by express with status 500.                           *)
(***************************************************************************)
Arrive(r, route, header, in) ==
    LET g == IF route \in Protected THEN auth(header, NowSec)
             ELSE GuardOut("none", 0, "", NoUser)
        q == [IdleReq EXCEPT !.route = route, !.hdr = header, !.in = in,
                             !.guard = g.result, !.user = g.user]
    IN  IF g.result \in {"throw", "denied", "invalid"}
        THEN [q EXCEPT !.pc = "done",
                       !.res = IF g.result = "throw"
                               THEN Failure(g.status, "", g.text)
                               ELSE Text(g.status, g.text)]
        ELSE IF route = "/validate-token"
        THEN [q EXCEPT !.pc = "done", !.nexts = 1, !.calls = 1,
                       !.res = Json({g.user})]
        ELSE [q EXCEPT !.pc = FirstPc(route),
                       !.nexts = IF route \in Protected THEN 1 ELSE 0,
                       !.calls = IF route = "/upload" THEN 0 ELSE 1]

\* How many requests of a route are in flight.
Pending(route) ==
    Cardinality({r \in Reqs : req[r].route = route /\ req[r].pc # "done"})

\* The positions of a slot whose request is over: answered, or given up by
\* its client.
Over == {"idle", "done", "closed"}

\* A slot takes a request when the process listens and the slot is free: at
\* the start, or once its last request is over.
Request(r, inputs) ==
    /\ proc.state = "listening"
    /\ req[r].pc \in Over
    /\ \E i \in inputs :
        /\ i.route = "/upload" =>
              Cardinality(documents) + Pending("/upload")
                  - (IF req[r].route = "/upload" THEN 1 ELSE 0) < MaxDocs
        /\ req' = [req EXCEPT ![r] = Arrive(r, i.route, i.hdr, i.in)]
    /\ UNCHANGED <<proc, clk, users, documents, bucket, issued, sent, stored, inUse, faults>>

\* Time passes.
Tick(last) ==
    /\ clk < last
    /\ \E c \in (clk + 1)..last : clk' = c
    /\ UNCHANGED <<proc, users, documents, bucket, issued, sent, stored, inUse, faults, req>>

\* The script's top level runs: lines 41-45, then the clients, the routes
\* and app.listen.
Start ==
    /\ proc.state = "starting"
    /\ proc' = [proc EXCEPT !.state = start(proc.JWT_SECRET)]
    /\ UNCHANGED <<clk, users, documents, bucket, issued, sent, stored, inUse,
                   faults, req>>

\* The process ends on an exception nothing catches, raised while it serves
\* slot r (left as q): its sockets close, so the requests in flight are
\* reset without a response, and its connections and reads close with it.
Uncaught(r, q) ==
    /\ proc' = [proc EXCEPT !.state = "exited", !.reads = 0]
    /\ inUse' = 0
    /\ req' = [s \in Reqs |->
                 LET x == IF s = r THEN q ELSE req[s] IN
                 IF x.pc \in Over THEN x
                 ELSE [x EXCEPT !.pc = "reset", !.conn = FALSE]]

\* What node does with a promise rejection nothing handles: it warns and
\* goes on (the default before node 15), or throws (the default since).
UnhandledRejections == {"warn", "throw"}

\* Whether a dependency call may fail now: always possible in the program,
\* bounded in the model.
Outcomes == IF faults < MaxFaults THEN {"ok", "fail"} ELSE {"ok"}
Fault(o) == faults' = IF o = "fail" THEN faults + 1 ELSE faults

(***************************************************************************)
(* await pool.getConnection(): the first statement of every try block.     *)
(* While every connection of the pool is checked out the call waits in the *)
(* pool's queue, with no limit of time; otherwise it gets a connection, or *)
(* the error of the attempt to open one.                                   *)
(***************************************************************************)
GetConnection(r) ==
    /\ req[r].pc = "getConnection"
    /\ inUse < ConnectionLimit
    /\ \E o \in Outcomes :
        /\ Fault(o)
        /\ IF o = "ok"
           THEN /\ req' = [req EXCEPT ![r].pc = "query", ![r].conn = TRUE,
                                      ![r].db = @ + 1]
                /\ inUse' = inUse + 1
           ELSE /\ req' = [req EXCEPT ![r] =
                    [Respond(r, catch(req[r].route, "ECONNREFUSED"))
                        EXCEPT !.db = @ + 1]]
                /\ inUse' = inUse
    /\ UNCHANGED <<proc, clk, users, documents, bucket, issued, sent, stored>>

\* await connection.query(...) rejects: control jumps to the catch block,
\* past connection.release().
QueryFails(r) ==
    /\ req[r].pc = "query"
    /\ faults < MaxFaults
    /\ faults' = faults + 1
    /\ req' = [req EXCEPT ![r] = Respond(r, catch(req[r].route, "ER_QUERY"))]
    /\ UNCHANGED <<proc, clk, users, documents, bucket, issued, sent, stored, inUse>>

\* connection.release() followed by the response.
Released(r, q) ==
    /\ req' = [req EXCEPT ![r] = [q EXCEPT !.conn = FALSE]]
    /\ inUse' = inUse - 1

(***************************************************************************)
(* The tables' constraints: ids are AUTO_INCREMENT primary keys and        *)
(* users.username is unique.                                               *)
(***************************************************************************)
Max(S) == IF S = {} THEN 0 ELSE CHOOSE m \in S : \A n \in S : n <= m
AutoIncrement(rows) == Max({row.id : row \in rows}) + 1
DuplicateEntry(rows, username) == \E u \in rows : u.username = username

(***************************************************************************)
(* POST /register                                                          *)
(***************************************************************************)
\* await bcrypt.hash(password, 10)
Hash(r) ==
    /\ req[r].pc = "hash"
    /\ \E salt \in Salts :
        req' = [req EXCEPT ![r].pc = "getConnection",
                           ![r].hashed = hash(req[r].in.password, salt)]
    /\ UNCHANGED <<proc, clk, users, documents, bucket, issued, sent, stored, inUse, faults>>

registerStatusAlways201(inserted) == 201
registerStatus(inserted) == IF inserted THEN 201 ELSE 400

insertUser(rows, username, password, company_id) ==
    rows \cup
        {[id |-> AutoIncrement(rows), username |-> username,
          password |-> password, company_id |-> company_id]}

\* INSERT INTO users: a duplicate username makes the query throw, and the
\* catch block answers 400 with the connection still checked out.
InsertUser(r) ==
    /\ req[r].pc = "query"
    /\ req[r].route = "/register"
    /\ LET in == req[r].in
           ok == ~DuplicateEntry(users, in.username)
       IN  /\ users' = IF ok THEN insertUser(users, in.username, req[r].hashed,
                                             in.company_id)
                       ELSE users
           /\ IF ok
              THEN Released(r, Respond(r, Text(registerStatus(TRUE),
                                               "User registered")))
              ELSE /\ req' = [req EXCEPT ![r] =
                          Respond(r, Failure(registerStatus(FALSE),
                                             "err.message", "ER_DUP_ENTRY"))]
                   /\ inUse' = inUse
    /\ UNCHANGED <<proc, clk, documents, bucket, issued, sent, stored, faults>>

(***************************************************************************)
(* POST /login                                                             *)
(***************************************************************************)
\* SELECT * FROM users WHERE username = ?
QueryLogin(r) ==
    /\ req[r].pc = "query"
    /\ req[r].route = "/login"
    /\ LET rows == {u \in users : u.username = req[r].in.username} IN
        IF rows = {}
        THEN Released(r, Respond(r, Text(401, "Invalid credentials")))
        ELSE \E user \in rows :
                Released(r, [req[r] EXCEPT !.pc = "compare", !.row = user])
    /\ UNCHANGED <<proc, clk, users, documents, bucket, issued, sent, stored, faults>>

loginAnyPassword(user, password, nowSec) ==
    [NoRes EXCEPT !.status = 200,
                  !.token = sign(user.id, user.company_id, Secret, nowSec)]
\* await bcrypt.compare, then jwt.sign, which throws when it is given no
\* secret
login(user, password, nowSec) ==
    IF ~compare(password, user.password)
    THEN Text(401, "Invalid credentials")
    ELSE IF JWT_SECRET = Unset
    THEN Failure(400, "err.message", "secretOrPrivateKey must have a value")
    ELSE [NoRes EXCEPT !.status = 200,
                       !.token = sign(user.id, user.company_id, JWT_SECRET,
                                      nowSec)]

Compare(r) ==
    /\ req[r].pc = "compare"
    /\ LET res == login(req[r].row, req[r].in.password, NowSec) IN
        /\ req' = [req EXCEPT ![r] = Respond(r, res)]
        /\ issued' = IF res.status = 200
                     THEN issued \cup {[token |-> res.token, at |-> Now]}
                     ELSE issued
    /\ UNCHANGED <<proc, clk, users, documents, bucket, sent, stored, inUse, faults>>

(***************************************************************************)
(* GET /user, GET /productions, GET /documents                             *)
(***************************************************************************)
\* SELECT id, username, company_id FROM users WHERE id = ?
QueryUser(r) ==
    /\ req[r].pc = "query"
    /\ req[r].route = "/user"
    /\ LET rows == {[id |-> u.id, username |-> u.username,
                     company_id |-> u.company_id] :
                        u \in {v \in users : v.id = req[r].user.id}}
       IN  IF rows = {}
           THEN Released(r, Respond(r, Text(404, "User not found")))
           ELSE \E row \in rows : Released(r, Respond(r, Json({row})))
    /\ UNCHANGED <<proc, clk, users, documents, bucket, issued, sent, stored, faults>>

\* SELECT * FROM productions WHERE company_id = ?
listProductions(company_id) ==
    {p \in productions : p.company_id = company_id}

QueryProductions(r) ==
    /\ req[r].pc = "query"
    /\ req[r].route = "/productions"
    /\ Released(r, Respond(r, Json(listProductions(req[r].user.company_id))))
    /\ UNCHANGED <<proc, clk, users, documents, bucket, issued, sent, stored, faults>>

\* SELECT d.*, p.name, c.name FROM documents d JOIN productions p ON
\* d.production_id = p.id JOIN companies c ON p.company_id = c.id
\* WHERE c.id = ?
Joined(d, p, c) ==
    [id |-> d.id, production_id |-> d.production_id,
     file_name |-> d.file_name, s3_key |-> d.s3_key, version |-> d.version,
     production_name |-> p.name, company_name |-> c.name]
listDocumentsUnscoped(docs, company_id) ==
    {Joined(x[1], x[2], x[3]) :
        x \in {y \in docs \X productions \X companies :
                  /\ y[1].production_id = y[2].id
                  /\ y[2].company_id = y[3].id}}
listDocuments(docs, company_id) ==
    {Joined(x[1], x[2], x[3]) :
        x \in {y \in docs \X productions \X companies :
                  /\ y[1].production_id = y[2].id
                  /\ y[2].company_id = y[3].id
                  /\ y[3].id = company_id}}

QueryDocuments(r) ==
    /\ req[r].pc = "query"
    /\ req[r].route = "/documents"
    /\ Released(r, Respond(r, Json(listDocuments(documents,
                                                  req[r].user.company_id))))
    /\ UNCHANGED <<proc, clk, users, documents, bucket, issued, sent, stored, faults>>

(***************************************************************************)
(* POST /upload: auth, upload.single('file'), then the handler.            *)
(***************************************************************************)
\* `uploads/${Date.now()}_${file.originalname}`
s3KeyNameOnly(now, originalname) == [ts |-> 0, name |-> originalname]
s3KeyTimeOnly(now, originalname) == [ts |-> now, name |-> ""]
s3Key(now, originalname) == [ts |-> now, name |-> originalname]

\* multer meets the body.  With a file part it asks the key callback for the
\* key; without one it calls the handler with req.file undefined, and the
\* handler's file.key throws outside its try block: the promise of the
\* handler rejects, nothing answers the request, and node warns or ends.
Multer(r) ==
    /\ req[r].pc = "multer"
    /\ LET file == req[r].in.file IN
        IF file.present
        THEN /\ req' = [req EXCEPT ![r].pc = "s3put", ![r].keyAt = Now,
                                   ![r].key = s3Key(Now, file.originalname)]
             /\ UNCHANGED <<proc, inUse>>
        ELSE LET q == [req[r] EXCEPT !.pc = "unhandled", !.calls = @ + 1] IN
             \E o \in UnhandledRejections :
                IF o = "throw" THEN Uncaught(r, q)
                ELSE req' = [req EXCEPT ![r] = q] /\ UNCHANGED <<proc, inUse>>
    /\ UNCHANGED <<clk, users, documents, bucket, issued, sent, stored, faults>>

\* PutObject: the object under the key is created or replaced.
putObject(objects, key, body) ==
    {o \in objects : o.key # key} \cup {[key |-> key, body |-> body]}

\* multer-s3 stores the file, then multer calls the handler; a failed store
\* goes to next(err), which express answers with status 500.
S3Put(r) ==
    /\ req[r].pc = "s3put"
    /\ \E o \in Outcomes :
        /\ Fault(o)
        /\ IF o = "ok"
           THEN /\ bucket' = putObject(bucket, req[r].key,
                                       req[r].in.file.content)
                /\ stored' = stored \cup
                      {[at |-> req[r].keyAt,
                        name |-> req[r].in.file.originalname,
                        body |-> req[r].in.file.content]}
                /\ req' = [req EXCEPT ![r].pc = "getConnection",
                                      ![r].s3 = @ + 1, ![r].calls = @ + 1]
           ELSE /\ bucket' = bucket
                /\ stored' = stored
                /\ req' = [req EXCEPT ![r] =
                      [Respond(r, Failure(500, "", "S3ServiceException"))
                          EXCEPT !.s3 = @ + 1]]
    /\ UNCHANGED <<proc, clk, users, documents, issued, sent, inUse>>

\* INSERT INTO documents (production_id, file_name, s3_key, version)
insertDocumentReplace(rows, production_id, file_name, key, version) ==
    {d \in rows : ~(d.production_id = production_id /\ d.version = version)}
        \cup {[id |-> AutoIncrement(rows), production_id |-> production_id,
               file_name |-> file_name, s3_key |-> key, version |-> version]}
insertDocument(rows, production_id, file_name, key, version) ==
    rows \cup
        {[id |-> AutoIncrement(rows), production_id |-> production_id,
          file_name |-> file_name, s3_key |-> key, version |-> version]}

InsertDocumentChecked(r) ==
    /\ req[r].pc = "query"
    /\ req[r].route = "/upload"
    /\ LET in == req[r].in
           id == AutoIncrement(documents)
       IN  IF in.production_id
                \in {p.id : p \in listProductions(req[r].user.company_id)}
           THEN /\ documents' = insertDocument(documents, in.production_id,
                                   in.file.originalname, req[r].key, in.version)
                /\ sent' = sent \cup
                      {[id |-> id, at |-> req[r].keyAt,
                        name |-> in.file.originalname,
                        body |-> in.file.content]}
                /\ Released(r, [Respond(r, Text(200,
                                                "File uploaded successfully"))
                                   EXCEPT !.docId = id])
           ELSE /\ UNCHANGED <<documents, sent>>
                /\ Released(r, Respond(r, Text(403, "Forbidden")))
    /\ UNCHANGED <<proc, clk, users, bucket, issued, stored, faults>>
InsertDocument(r) ==
    /\ req[r].pc = "query"
    /\ req[r].route = "/upload"
    /\ LET in == req[r].in
           id == AutoIncrement(documents)
       IN  /\ documents' = insertDocument(documents, in.production_id,
                                in.file.originalname, req[r].key, in.version)
           /\ sent' = sent \cup
                  {[id |-> id, at |-> req[r].keyAt,
                    name |-> in.file.originalname, body |-> in.file.content]}
           /\ Released(r, [Respond(r, Text(200, "File uploaded successfully"))
                              EXCEPT !.docId = id])
    /\ UNCHANGED <<proc, clk, users, bucket, issued, stored, faults>>

(***************************************************************************)
(* GET /download/:id                                                       *)
(***************************************************************************)
getDocumentAny(rows, id) == rows
getDocument(rows, id) == {d \in rows : d.id = id}

\* The production of a document row belongs to the company.
Owns(company_id, d) ==
    \E p \in productions : p.id = d.production_id /\ p.company_id = company_id

QueryDownloadScoped(r) ==
    /\ req[r].pc = "query"
    /\ req[r].route = "/download"
    /\ LET rows == {d \in getDocument(documents, req[r].in.id) :
                        Owns(req[r].user.company_id, d)} IN
        IF rows = {}
        THEN Released(r, Respond(r, Text(404, "Document not found")))
        ELSE \E document \in rows :
                Released(r, [req[r] EXCEPT !.pc = "send", !.row = document])
    /\ UNCHANGED <<proc, clk, users, documents, bucket, issued, sent, stored, faults>>
\* SELECT * FROM documents WHERE id = ?
QueryDownload(r) ==
    /\ req[r].pc = "query"
    /\ req[r].route = "/download"
    /\ LET rows == getDocument(documents, req[r].in.id) IN
        IF rows = {}
        THEN Released(r, Respond(r, Text(404, "Document not found")))
        ELSE \E document \in rows :
                Released(r, [req[r] EXCEPT !.pc = "send", !.row = document])
    /\ UNCHANGED <<proc, clk, users, documents, bucket, issued, sent, stored, faults>>

\* res.attachment(document.file_name); s3Stream.Body.pipe(res)
attachment(document, object) ==
    [NoRes EXCEPT !.status = 200, !.attachment = document.file_name,
                  !.body = object.body]

\* await s3Client.send(new GetObjectCommand(...)): the object, whose body
\* is then piped to the response, or an error (also when no object has the
\* key) that the catch block answers.
S3Send(r) ==
    /\ req[r].pc = "send"
    /\ LET objects == {o \in bucket : o.key = req[r].row.s3_key} IN
        \E o \in Outcomes :
            /\ Fault(o)
            /\ IF o = "ok" /\ objects # {}
               THEN /\ \E object \in objects :
                        req' = [req EXCEPT ![r].pc = "pipe", ![r].s3 = @ + 1,
                                   ![r].read = "open",
                                   ![r].res = attachment(req[r].row, object)]
                    /\ proc' = [proc EXCEPT !.reads = @ + 1]
               ELSE /\ req' = [req EXCEPT ![r] =
                        [Respond(r, catch(req[r].route,
                                          IF o = "ok" THEN "NoSuchKey"
                                          ELSE "S3ServiceException"))
                            EXCEPT !.s3 = @ + 1]]
                    /\ proc' = proc
    /\ UNCHANGED <<clk, users, documents, bucket, issued, sent, stored, inUse>>

\* The body ends: pipe ends the response, and the read is over.
PipeEnd(r) ==
    /\ req[r].pc = "pipe"
    /\ req' = [req EXCEPT ![r].pc = "done", ![r].read = "ended"]
    /\ proc' = [proc EXCEPT !.reads = @ - 1]
    /\ UNCHANGED <<clk, users, documents, bucket, issued, sent, stored, inUse,
                   faults>>

\* What a body whose socket breaks does: it emits 'error', which has no
\* listener (pipe listens on the response only) and so is thrown, or only
\* 'aborted' (older versions of node), and the response is never ended.
BrokenBodies == {"error", "aborted"}

\* The read fails while the body is piped, after the handler has returned.
PipeError(r) ==
    /\ req[r].pc = "pipe"
    /\ faults < MaxFaults
    /\ faults' = faults + 1
    /\ LET q == [req[r] EXCEPT !.pc = "unhandled", !.read = "errored",
                               !.res.err = "ECONNRESET"] IN
        \E o \in BrokenBodies :
            IF o = "error" THEN Uncaught(r, q)
            ELSE /\ req' = [req EXCEPT ![r] = q]
                 /\ proc' = [proc EXCEPT !.reads = @ - 1]
                 /\ inUse' = inUse
    /\ UNCHANGED <<clk, users, documents, bucket, issued, sent, stored>>

\* The client goes away while the body is piped: the response closes and
\* pipe unpipes the body, which nothing destroys; the read stays open.
Disconnect(r) ==
    /\ req[r].pc = "pipe"
    /\ proc.reads <= MaxReads
    /\ req' = [req EXCEPT ![r].pc = "closed", ![r].client = "gone"]
    /\ UNCHANGED <<proc, clk, users, documents, bucket, issued, sent, stored,
                   inUse, faults>>

(***************************************************************************)
(* GET /db and GET /status: no guard.                                      *)
(***************************************************************************)
\* SELECT NOW(); the answer is sent before the connection is released.
QueryDb(r) ==
    /\ req[r].pc = "query"
    /\ req[r].route = "/db"
    /\ Released(r, Respond(r, Json({[now |-> Now]})))
    /\ UNCHANGED <<proc, clk, users, documents, bucket, issued, sent, stored, faults>>

\* The names of the tables, then SELECT * of each of them.
statusReport == [NoRes EXCEPT !.status = 200, !.text = "Database Status",
                              !.rows = users \cup documents \cup productions
                                           \cup companies]
QueryStatus(r) ==
    /\ req[r].pc = "query"
    /\ req[r].route = "/status"
    /\ Released(r, Respond(r, statusReport))
    /\ UNCHANGED <<proc, clk, users, documents, bucket, issued, sent, stored, faults>>

(***************************************************************************)
(* Initial states.  The tables outlive the process, and a token outlives   *)
(* it too (verification keeps no state), so the service may start with     *)
(* users registered and with tokens in its clients' hands.                 *)
(***************************************************************************)
Alice ==
    [id |-> 1, username |-> "alice", password |-> hash("pw1", "s1"),
     company_id |-> 1]
Bob ==
    [id |-> 2, username |-> "bob", password |-> hash("pw2", "s1"),
     company_id |-> 2]
\* The token a login of user at instant `at` (milliseconds) produced.
IssuedTo(user, at) ==
    [token |-> sign(user.id, user.company_id, Secret, at \div MsPerSec),
     at |-> at]
Tokens == {i.token : i \in issued}

InitWith(u, t, f) ==
    /\ clk = 1
    /\ users = u
    /\ documents = {}
    /\ bucket = {}
    /\ issued = t
    /\ sent = {}
    /\ stored = {}
    /\ inUse = 0
    /\ faults = f
    /\ proc = Process("listening", Secret)
    /\ req = [r \in Reqs |-> IdleReq]

\* The slot of the specifications that take one request at a time.
Serial == {1}

Input(route, hdr, in) == [route |-> route, hdr |-> hdr, in |-> in]
BearerOf(tokens) == {HeaderOf(<<Bearer, t>>) : t \in tokens}

(***************************************************************************)
(* Spec: every route, with every shape of Authorization header, at one     *)
(* instant, one request at a time.  Alice and Bob are registered; their    *)
(* clients hold fresh tokens and one that expired an hour ago.             *)
(***************************************************************************)
Init ==
    InitWith({Alice, Bob},
             {IssuedTo(Alice, 0), IssuedTo(Bob, 0), IssuedTo(Alice, 0 - Lifetime)},
             0)

Inputs ==
    LET hdrs == HeadersOf(Tokens \cup {Forged(1, 1), Garbage}) IN
    {Input(route, h, NoIn) :
        route \in {"/productions", "/documents", "/validate-token", "/user"},
        h \in hdrs}
    \cup {Input("/download", h, [NoIn EXCEPT !.id = id]) :
            h \in hdrs, id \in {1, 2}}
    \cup {Input("/upload", h, [NoIn EXCEPT !.production_id = p,
                                           !.version = "v1", !.file = f]) :
            h \in hdrs, p \in ProductionIds,
            f \in {NoFile, FileOf("a.pdf", "x")}}
    \cup {Input(route, NoHeader, NoIn) : route \in {"/db", "/status"}}
    \cup {Input("/register", NoHeader,
                [NoIn EXCEPT !.username = u, !.password = "pw2",
                             !.company_id = 2]) : u \in {"alice", "carol"}}
    \cup {Input("/login", NoHeader,
                [NoIn EXCEPT !.username = "alice", !.password = pw]) :
            pw \in Passwords}

Handlers(r) ==
    \/ GetConnection(r)
    \/ QueryFails(r)
    \/ Hash(r)
    \/ InsertUser(r)
    \/ QueryLogin(r)
    \/ Compare(r)
    \/ QueryUser(r)
    \/ QueryProductions(r)
    \/ QueryDocuments(r)
    \/ Multer(r)
    \/ S3Put(r)
    \/ InsertDocument(r)
    \/ QueryDownload(r)
    \/ S3Send(r)
    \/ PipeEnd(r)
    \/ QueryDb(r)
    \/ QueryStatus(r)

Next ==
    \E r \in Serial :
        \/ Request(r, Inputs)
        \/ Handlers(r)

Spec == Init /\ [][Next]_vars

(***************************************************************************)
(* SpecToken: logins and guarded requests, one at a time, while time       *)
(* passes.                                                                 *)
(***************************************************************************)
InitToken == InitWith({Alice}, {}, 0)

TokenInputs ==
    {Input(route, h, NoIn) :
        route \in {"/validate-token", "/user"}, h \in BearerOf(Tokens)}
    \cup {Input("/login", NoHeader,
                [NoIn EXCEPT !.username = "alice", !.password = "pw1"])}

NextToken ==
    \/ Tick(Len(Instants))
    \/ \E r \in Serial :
        \/ Request(r, TokenInputs)
        \/ GetConnection(r)
        \/ QueryFails(r)
        \/ QueryLogin(r)
        \/ Compare(r)
        \/ QueryUser(r)

SpecToken == InitToken /\ [][NextToken]_vars

(***************************************************************************)
(* SpecUsers: registrations and logins against an empty users table.       *)
(***************************************************************************)
InitUsers == InitWith({}, {}, 0)

Registrations ==
    {<<"alice", "pw1", 1>>, <<"alice", "pw2", 2>>, <<"bob", "pw2", 2>>}
UserInputs ==
    {Input("/register", NoHeader,
           [NoIn EXCEPT !.username = x[1], !.password = x[2],
                        !.company_id = x[3]]) : x \in Registrations}
    \cup {Input("/login", NoHeader,
                [NoIn EXCEPT !.username = u, !.password = pw]) :
            u \in Usernames, pw \in Passwords}

NextUsers ==
    \E r \in Reqs :
        \/ Request(r, UserInputs)
        \/ Hash(r)
        \/ GetConnection(r)
        \/ QueryFails(r)
        \/ InsertUser(r)
        \/ QueryLogin(r)
        \/ Compare(r)

SpecUsers == InitUsers /\ [][NextUsers]_vars

(***************************************************************************)
(* SpecDocs: uploads to one production and downloads, two at a time,      *)
(* while the clock moves from one millisecond to the next, and with the    *)
(* database and the bucket answering every call.                           *)
(***************************************************************************)
InitDocs == InitWith({Alice}, {IssuedTo(Alice, 0)}, MaxFaults)

Files == {FileOf("a.pdf", "x"), FileOf("a.pdf", "y"), FileOf("b.pdf", "x")}
DocInputs ==
    LET hdrs == BearerOf(Tokens) IN
    {Input("/download", h, [NoIn EXCEPT !.id = id]) :
        h \in hdrs, id \in 1..MaxDocs}
    \cup {Input("/upload", h, [NoIn EXCEPT !.production_id = 1,
                                           !.version = v, !.file = f]) :
            h \in hdrs, v \in Versions, f \in Files}

NextDocs ==
    \/ Tick(MaxDocClk)
    \/ \E r \in Reqs :
        \/ Request(r, DocInputs)
        \/ GetConnection(r)
        \/ Multer(r)
        \/ S3Put(r)
        \/ InsertDocument(r)
        \/ QueryDownload(r)
        \/ S3Send(r)
        \/ PipeEnd(r)

SpecDocs == InitDocs /\ [][NextDocs]_vars

(***************************************************************************)
(* SpecStart: the process from its start, with JWT_SECRET set or not in    *)
(* its environment, then logins and guarded requests one at a time.        *)
(***************************************************************************)
InitStart ==
    /\ clk = 1
    /\ users = {Alice}
    /\ documents = {}
    /\ bucket = {}
    /\ issued = {IssuedTo(Alice, 0)}
    /\ sent = {}
    /\ stored = {}
    /\ inUse = 0
    /\ faults = 0
    /\ \E secret \in {Secret, Unset} : proc = Process("starting", secret)
    /\ req = [r \in Reqs |-> IdleReq]

StartInputs ==
    {Input(route, h, NoIn) :
        route \in {"/validate-token", "/user"},
        h \in HeadersOf(Tokens)}
    \cup {Input("/login", NoHeader,
                [NoIn EXCEPT !.username = "alice", !.password = pw]) :
            pw \in Passwords}
    \cup {Input("/db", NoHeader, NoIn)}

NextStart ==
    \/ Start
    \/ Tick(MaxDocClk)
    \/ \E r \in Serial :
        \/ Request(r, StartInputs)
        \/ GetConnection(r)
        \/ QueryFails(r)
        \/ QueryLogin(r)
        \/ Compare(r)
        \/ QueryUser(r)
        \/ QueryDb(r)

SpecStart == InitStart /\ [][NextStart]_vars

(***************************************************************************)
(* SpecKeys: uploads of files of two names, two at a time, while the clock *)
(* moves from one millisecond to the next.                                 *)
(***************************************************************************)
KeyInputs ==
    {Input("/upload", h, [NoIn EXCEPT !.production_id = 1, !.version = v,
                                      !.file = f]) :
        h \in BearerOf(Tokens), v \in Versions, f \in Files}

NextKeys ==
    \/ Tick(MaxDocClk)
    \/ \E r \in Reqs :
        \/ Request(r, KeyInputs)
        \/ Multer(r)
        \/ S3Put(r)
        \/ GetConnection(r)
        \/ InsertDocument(r)

SpecKeys == InitDocs /\ [][NextKeys]_vars

(***************************************************************************)
(* SpecUploads: uploads of files of one name, two at a time, while the     *)
(* clock moves and the database and the bucket may fail.                   *)
(***************************************************************************)
InitUploads == InitWith({Alice}, {IssuedTo(Alice, 0)}, 0)

UploadInputs ==
    {Input("/upload", h, [NoIn EXCEPT !.production_id = 1, !.version = v,
                                      !.file = FileOf("a.pdf", c)]) :
        h \in BearerOf(Tokens), v \in Versions, c \in Contents}

NextUploads ==
    \/ Tick(MaxDocClk)
    \/ \E r \in Reqs :
        \/ Request(r, UploadInputs)
        \/ Multer(r)
        \/ S3Put(r)
        \/ GetConnection(r)
        \/ QueryFails(r)
        \/ InsertDocument(r)

SpecUploads == InitUploads /\ [][NextUploads]_vars

(***************************************************************************)
(* SpecTenants: uploads to the productions of both companies and listings  *)
(* by both, two requests at a time.                                        *)
(***************************************************************************)
InitTenants ==
    InitWith({Alice, Bob}, {IssuedTo(Alice, 0), IssuedTo(Bob, 0)}, 0)

TenantInputs ==
    LET hdrs == BearerOf(Tokens) IN
    {Input("/documents", h, NoIn) : h \in hdrs}
    \cup {Input("/upload", h, [NoIn EXCEPT !.production_id = p,
                                           !.version = v,
                                           !.file = FileOf("a.pdf", "x")]) :
            h \in hdrs, p \in ProductionIds, v \in Versions}

NextTenants ==
    \E r \in Reqs :
        \/ Request(r, TenantInputs)
        \/ GetConnection(r)
        \/ QueryFails(r)
        \/ Multer(r)
        \/ S3Put(r)
        \/ InsertDocument(r)
        \/ QueryDocuments(r)

SpecTenants == InitTenants /\ [][NextTenants]_vars

(***************************************************************************)
(* SpecStreams: uploads with or without a file part and downloads, two at  *)
(* a time, with bodies that break while they are piped and clients that go *)
(* away.                                                                   *)
(***************************************************************************)
InitStreams == InitWith({Alice}, {IssuedTo(Alice, 0)}, 0)

StreamInputs ==
    LET hdrs == BearerOf(Tokens) IN
    {Input("/download", h, [NoIn EXCEPT !.id = 1]) : h \in hdrs}
    \cup {Input("/upload", h, [NoIn EXCEPT !.production_id = 1,
                                           !.version = "v1", !.file = f]) :
            h \in hdrs, f \in {NoFile, FileOf("a.pdf", "x")}}

NextStreams ==
    \E r \in Reqs :
        \/ Request(r, StreamInputs)
        \/ GetConnection(r)
        \/ QueryFails(r)
        \/ Multer(r)
        \/ S3Put(r)
        \/ InsertDocument(r)
        \/ QueryDownload(r)
        \/ S3Send(r)
        \/ PipeEnd(r)
        \/ PipeError(r)
        \/ Disconnect(r)

SpecStreams == InitStreams /\ [][NextStreams]_vars

(***************************************************************************)
(* SpecLive: requests one at a time, with the database and the bucket      *)
(* answering every call they are sent, in the end: every step of a handler *)
(* that can be taken is taken.  The client of a download stays.            *)
(***************************************************************************)
InitLive == InitWith({Alice}, {IssuedTo(Alice, 0)}, 0)

LiveInputs ==
    {Input("/db", NoHeader, NoIn)}
    \cup {Input("/documents", h, NoIn) :
            h \in {NoHeader} \cup BearerOf(Tokens)}
    \cup {Input("/register", NoHeader,
                [NoIn EXCEPT !.username = u, !.password = "pw2",
                             !.company_id = 2]) : u \in {"alice", "bob"}}
    \cup {Input("/download", h, [NoIn EXCEPT !.id = 1]) :
            h \in BearerOf(Tokens)}
    \cup {Input("/upload", h, [NoIn EXCEPT !.production_id = 1,
                                           !.version = "v1", !.file = f]) :
            h \in BearerOf(Tokens), f \in {NoFile, FileOf("a.pdf", "x")}}

LiveHandlers(r) ==
    \/ GetConnection(r)
    \/ QueryFails(r)
    \/ Hash(r)
    \/ InsertUser(r)
    \/ QueryDocuments(r)
    \/ Multer(r)
    \/ S3Put(r)
    \/ InsertDocument(r)
    \/ QueryDownload(r)
    \/ S3Send(r)
    \/ PipeEnd(r)
    \/ PipeError(r)
    \/ QueryDb(r)

NextLive ==
    \E r \in Serial :
        \/ Request(r, LiveInputs)
        \/ LiveHandlers(r)

SpecLive ==
    /\ InitLive
    /\ [][NextLive]_vars
    /\ \A r \in Serial : WF_vars(LiveHandlers(r))

(***************************************************************************)
(* Properties.                                                             *)
(***************************************************************************)
\* The token the guard extracts from a header, and whether jwt.verify
\* accepts it now.
TokenIn(header) == replaceBearer(header.value)
Verifies(header) ==
    /\ Len(TokenIn(header)) = 1
    /\ verify(TokenIn(header)[1], Secret, NowSec) = "ok"
\* The request was let through (by the guard, if its route has one) and has
\* been answered without a failure of the database or the bucket.
Clean(q) ==
    q.pc = "done" /\ q.guard \in {"next", "none"} /\ q.res.err = ""
CompanyOf(d) == {p.company_id : p \in {x \in productions : x.id = d.production_id}}

\* C1: GET /documents with a verified claim of company A returns only
\* documents whose production belongs to A, whatever has been registered and
\* uploaded before.
C1_ListingIsolation ==
    \A r \in Reqs :
        (req[r].route = "/documents" /\ Clean(req[r])) =>
            /\ req[r].guard = "next"
            /\ req[r].res.status = 200
            /\ \A row \in req[r].res.rows :
                \E d \in documents :
                    /\ d.id = row.id
                    /\ d.production_id = row.production_id
                    /\ CompanyOf(d) = {req[r].user.company_id}

C1_Witness ==
    \E r \in Reqs :
        /\ req[r].route = "/documents"
        /\ Clean(req[r])
        /\ req[r].res.rows # {}
        /\ \E d \in documents : CompanyOf(d) # {req[r].user.company_id}

\* C2: a request to a bearer-protected route that carries no Authorization
\* header is answered 401, with no database connection acquired and no
\* object-storage call made.
C2_NoHeader401 ==
    \A r \in Reqs :
        (req[r].route \in Protected /\ ~req[r].hdr.present
            /\ req[r].pc = "done") =>
            /\ req[r].res.status = 401
            /\ req[r].db = 0
            /\ req[r].s3 = 0

\* What C3 says of a request whose header is present, with `denied` the
\* answer to a request whose token does not verify.
GuardOutcome(q, denied) ==
    LET token == TokenIn(q.hdr) IN
    IF Verifies(q.hdr)
    THEN /\ q.guard = "next"
         /\ q.user = Claim(token[1])
         /\ q.nexts = 1
         /\ q.calls = IF q.route = "/upload"
                         /\ (q.pc \in {"multer", "s3put"}
                             \/ q.res.err = "S3ServiceException")
                      THEN 0 ELSE 1
         /\ (q.route = "/validate-token"
                \/ q.pc = "multer"
                \/ (q.pc = "getConnection" /\ q.route # "/upload"))
               => q.db = 0 /\ q.s3 = 0 /\ ~q.conn
    ELSE /\ q.pc = "done"
         /\ q.res = denied
         /\ q.user = NoUser
         /\ q.nexts = 0
         /\ q.calls = 0
         /\ q.db = 0 /\ q.s3 = 0 /\ ~q.conn

\* C3 as claimed: with a header, a token that fails verification is
\* answered 401 'Invalid token' and the handler is not invoked; a token that
\* verifies has its claim attached and the handler invoked once; the guard
\* touches no database.
C3_Original ==
    \A r \in Reqs :
        (req[r].route \in Protected /\ req[r].hdr.present) =>
            GuardOutcome(req[r], Text(401, "Invalid token"))

\* C3 as amended: the same, except that a header that leaves no token once
\* 'Bearer ' is removed is answered 401 'Access denied'.
C3_Guard ==
    \A r \in Reqs :
        (req[r].route \in Protected /\ req[r].hdr.present) =>
            GuardOutcome(req[r],
                         IF TokenIn(req[r].hdr) = <<>>
                         THEN Text(401, "Access denied")
                         ELSE Text(401, "Invalid token"))

C3_Witness ==
    \E r \in Reqs :
        /\ req[r].route = "/user"
        /\ req[r].hdr.present
        /\ Verifies(req[r].hdr)
        /\ Clean(req[r])
        /\ req[r].res.status = 200
        /\ req[r].calls = 1

\* The routes behind the guard whose handlers read or write tenant data,
\* and all the routes that do.
GuardedData == {"/upload", "/productions", "/documents", "/download", "/user"}
TenantData == GuardedData \cup {"/status", "/register", "/login"}
Touched(q) == q.db > 0 \/ q.s3 > 0 \/ q.conn

\* C4 as claimed: on every route whose handler reads or writes tenant data
\* the guard has accepted the request before the database or the bucket is
\* touched.
C4_Original ==
    \A r \in Reqs :
        (req[r].route \in TenantData /\ Touched(req[r])) =>
            req[r].guard = "next"

\* C4 as amended: that holds of the routes registered with auth; no request
\* to them without a verified token gets as far as multer, the handler, the
\* database or the bucket.  /status runs without the guard and answers any
\* caller with the rows of every table.
C4_GuardBeforeData ==
    \A r \in Reqs :
        /\ (req[r].route \in GuardedData
              /\ (Touched(req[r]) \/ req[r].calls > 0
                    \/ req[r].pc \notin {"idle", "done"})) =>
                /\ req[r].guard = "next"
                /\ req[r].hdr.present
                /\ Verifies(req[r].hdr)
                /\ req[r].user = Claim(TokenIn(req[r].hdr)[1])
        /\ (req[r].route = "/status" /\ Clean(req[r])) =>
                /\ req[r].guard = "none"
                /\ req[r].db > 0
                /\ users \cup documents \subseteq req[r].res.rows

C4_Witness ==
    \E r \in Reqs :
        /\ req[r].route = "/upload"
        /\ req[r].guard = "next"
        /\ req[r].s3 > 0
        /\ req[r].db > 0
        /\ Clean(req[r])

\* C8: a download of a document id that no row has is answered 404 and
\* never with a status of the 500 class, and reads nothing from the bucket.
C8_DownloadNotFound ==
    \A r \in Reqs :
        (req[r].route = "/download" /\ req[r].guard = "next"
            /\ \A d \in documents : d.id # req[r].in.id) =>
            /\ req[r].s3 = 0
            /\ req[r].pc # "send"
            /\ req[r].pc = "done" => req[r].res.status \notin 500..599
            /\ Clean(req[r]) => req[r].res = Text(404, "Document not found")

C8_Witness ==
    \E r \in Reqs :
        /\ req[r].route = "/download"
        /\ req[r].in.id = 2
        /\ documents # {}
        /\ Clean(req[r])
        /\ req[r].res.status = 404

\* A handler step of slot r answers its request.
Answers(r) == req[r].pc \notin {"idle", "done"} /\ req'[r].pc = "done"

\* C5: a login with a registered user's name and password is answered with
\* a token whose claim carries that user's id and company_id; any other
\* login is answered 401 'Invalid credentials', the same whether or not the
\* name is registered, and issues no token.
C5_Login ==
    [][\A r \in Reqs :
        (Answers(r) /\ req'[r].route = "/login" /\ req'[r].res.err = "") =>
            LET in == req'[r].in
                valid == {u \in users : /\ u.username = in.username
                                        /\ compare(in.password, u.password)}
            IN  IF valid # {}
                THEN \E u \in valid :
                        /\ req'[r].res.status = 200
                        /\ req'[r].res.token.kind = "jwt"
                        /\ verify(req'[r].res.token, Secret, NowSec) = "ok"
                        /\ Claim(req'[r].res.token).id = u.id
                        /\ Claim(req'[r].res.token).company_id = u.company_id
                        /\ req'[r].res.token \in {i.token : i \in issued'}
                ELSE /\ req'[r].res = Text(401, "Invalid credentials")
                     /\ issued' = issued]_vars

C5_Witness ==
    \E r, q \in Reqs :
        /\ req[r].route = "/login" /\ Clean(req[r])
        /\ req[r].res.status = 200
        /\ req[r].res.token.company_id = 2
        /\ req[q].route = "/login" /\ Clean(req[q])
        /\ req[q].res.status = 401
        /\ \A u \in users : u.username # req[q].in.username

\* C10: a registration whose username a row already has is answered 400,
\* adds no row and changes none; one whose username is new adds exactly one
\* row, with that name, company and a verifier of the password, and is
\* answered 201.
C10_Register ==
    [][/\ users \subseteq users'
       /\ \A r \in Reqs :
            (Answers(r) /\ req'[r].route = "/register") =>
                LET in == req'[r].in IN
                IF \E u \in users : u.username = in.username
                THEN req'[r].res.status = 400 /\ users' = users
                ELSE IF req'[r].res.err # ""
                THEN req'[r].res.status = 400 /\ users' = users
                ELSE /\ req'[r].res = Text(201, "User registered")
                     /\ \E u \in users' :
                            /\ u \notin users
                            /\ users' = users \cup {u}
                            /\ u.id \notin {v.id : v \in users}
                            /\ u.username = in.username
                            /\ u.company_id = in.company_id
                            /\ u.password \in
                                 {hash(in.password, salt) : salt \in Salts}
                            /\ compare(in.password, u.password)]_vars

C10_Witness ==
    \E r \in Reqs :
        /\ req[r].route = "/register"
        /\ req[r].pc = "done"
        /\ req[r].res.status = 400
        /\ req[r].res.err = "ER_DUP_ENTRY"
        /\ Cardinality({u \in users : u.username = req[r].in.username}) = 1

\* C6 as claimed: a token issued at time T verifies at every time before
\* T + 3600 s and fails with TokenExpired at every time from T + 3600 s on.
C6_Original ==
    \A i \in issued :
        verify(i.token, Secret, NowSec) =
            IF Now < i.at + Lifetime THEN "ok" ELSE "TokenExpiredError"

\* C6 as amended: a token issued at time T carries iat = T cut to whole
\* seconds and exp = iat + 3600; it verifies while the clock, cut to whole
\* seconds, is before exp and fails with TokenExpired from then on.  So it
\* fails at every time from T + 3600 s on and verifies at every time up to
\* T + 3599 s, and a protected request presenting it is let through or
\* answered 401 accordingly, without the guard touching the database.
C6_Lifetime ==
    [][/\ \A i \in issued :
            /\ i.token.iat = i.at \div MsPerSec
            /\ i.token.exp = i.token.iat + ExpiresIn
            /\ verify(i.token, Secret, NowSec) =
                 IF NowSec < i.token.exp THEN "ok" ELSE "TokenExpiredError"
            /\ Now >= i.at + Lifetime =>
                 verify(i.token, Secret, NowSec) = "TokenExpiredError"
            /\ Now + MsPerSec <= i.at + Lifetime =>
                 verify(i.token, Secret, NowSec) = "ok"
       /\ \A r \in Reqs :
            (req[r].pc \in {"idle", "done"} /\ req'[r] # req[r]
                /\ req'[r].route \in Protected) =>
                LET t == TokenIn(req'[r].hdr)[1] IN
                IF NowSec < t.exp
                THEN /\ req'[r].guard = "next"
                     /\ req'[r].user = Claim(t)
                     /\ req'[r].db = 0 /\ ~req'[r].conn
                ELSE /\ req'[r].pc = "done"
                     /\ req'[r].res = Text(401, "Invalid token")
                     /\ req'[r].db = 0 /\ ~req'[r].conn]_vars

C6_Witness ==
    \E i \in issued, r \in Reqs :
        /\ i.at = 1
        /\ Now = Lifetime
        /\ req[r].route = "/validate-token"
        /\ req[r].hdr = HeaderOf(<<Bearer, i.token>>)
        /\ req[r].pc = "done"
        /\ req[r].res = Text(401, "Invalid token")

\* No other file of the same name was keyed in the same millisecond and
\* stored with other bytes.
Unshared(s) ==
    \A p \in stored : (p.at = s.at /\ p.name = s.name) => p.body = s.body

\* C7 as claimed: a download of the document an upload created returns the
\* uploaded bytes under the uploaded file name.
C7_Original ==
    \A r \in Reqs :
        (req[r].route = "/download" /\ Clean(req[r])
            /\ req[r].res.status = 200) =>
            \E s \in sent :
                /\ s.id = req[r].in.id
                /\ req[r].res.attachment = s.name
                /\ req[r].res.body = s.body

\* C7 as amended: it returns the uploaded file name, and the uploaded bytes
\* unless another upload of a file of the same name got its key in the same
\* millisecond and stored other bytes; then it returns the bytes of one of
\* the two.
C7_RoundTrip ==
    \A r \in Reqs :
        (req[r].route = "/download" /\ Clean(req[r])
            /\ req[r].res.status = 200) =>
            \E s \in sent :
                /\ s.id = req[r].in.id
                /\ req[r].res.attachment = s.name
                /\ Unshared(s) => req[r].res.body = s.body
                /\ \E p \in stored :
                     p.at = s.at /\ p.name = s.name /\ p.body = req[r].res.body

C7_Witness ==
    \E r \in Reqs :
        /\ req[r].route = "/download"
        /\ Clean(req[r])
        /\ req[r].res.status = 200
        /\ \E s \in sent :
            /\ s.id = req[r].in.id
            /\ s.id = 2
            /\ Unshared(s)
            /\ req[r].res.body = s.body
            /\ \E t \in sent : t.id = 1 /\ t.name = s.name /\ t.body # s.body

\* C9: two uploads to the same production with the same version, however
\* they interleave, both succeed and leave two rows with distinct ids;
\* no upload's row is replaced.
C9_ConcurrentUploads ==
    /\ \A d, e \in documents : d.id = e.id => d = e
    /\ \A s \in sent :
        \E d \in documents : d.id = s.id /\ d.file_name = s.name
    /\ \A r \in Reqs :
        (req[r].route = "/upload" /\ Clean(req[r])) =>
            /\ req[r].res.status = 200
            /\ \E d \in documents :
                /\ d.id = req[r].docId
                /\ d.production_id = req[r].in.production_id
                /\ d.version = req[r].in.version
                /\ d.file_name = req[r].in.file.originalname
                /\ d.s3_key = req[r].key
    /\ \A r, q \in Reqs :
        (r # q /\ req[r].route = "/upload" /\ req[q].route = "/upload"
            /\ Clean(req[r]) /\ Clean(req[q])) =>
            req[r].docId # req[q].docId

C9_Witness ==
    \E r, q \in Reqs :
        /\ r # q
        /\ req[r].route = "/upload" /\ req[q].route = "/upload"
        /\ Clean(req[r]) /\ Clean(req[q])
        /\ req[r].in.production_id = req[q].in.production_id
        /\ req[r].in.version = req[q].in.version
        /\ req[r].docId # req[q].docId
        /\ Cardinality(documents) = 2

\* C11: every handler that takes a connection from the pool has released
\* it when its request is over, on every exit path, also when a query
\* throws; once every request is over no connection is out of the pool.
C11_ConnectionsReleased ==
    /\ \A r \in Reqs : req[r].pc \in Over => ~req[r].conn
    /\ (\A r \in Reqs : req[r].pc \in Over) => inUse = 0

\* C12: once the process listens, no failure of the database or the bucket
\* during a request (a failed query, a failed GetObject, a body that breaks
\* while it is piped, an upload with no file part) ends the process.
C12_ProcessSurvives == proc.state = "listening"

\* The errors of the database and of the bucket.
DependencyErrors ==
    {"ECONNREFUSED", "ER_QUERY", "S3ServiceException", "NoSuchKey"}

\* C13: a request during which a call to the database or to the bucket
\* failed is answered with a status of the 500 class, never with a success
\* status.
C13_DependencyFailure500 ==
    \A r \in Reqs :
        (req[r].pc = "done" /\ req[r].res.err \in DependencyErrors) =>
            /\ req[r].res.status \in 500..599
            /\ req[r].res.status \notin 200..299

\* A slot whose request the process has taken.
Served(q) == q.pc # "idle"

\* C14: with JWT_SECRET unset the process ends before it listens: it never
\* listens, no request is served, and no token is issued or verified with
\* an absent secret.
C14_StartupPrecondition ==
    /\ proc.state = "listening" => JWT_SECRET # Unset
    /\ JWT_SECRET = Unset =>
          /\ proc.state \in {"starting", "exited"}
          /\ \A r \in Reqs : ~Served(req[r])
          /\ issued = {IssuedTo(Alice, 0)}
    /\ \A r \in Reqs :
          Served(req[r]) =>
              /\ JWT_SECRET = Secret
              /\ req[r].guard = "next" => Verifies(req[r].hdr)
              /\ req[r].res.token # NoToken => req[r].res.token.sig = Secret
    /\ \A i \in issued : i.token.sig = Secret

C14_Witness ==
    /\ proc.state = "exited"
    /\ JWT_SECRET = Unset
    /\ \A r \in Reqs : ~Served(req[r])

\* The bucket holds an object under the key.
BlobIn(objects, key) == \E o \in objects : o.key = key
Blob(key) == BlobIn(bucket, key)
\* The errors of the database.
DatabaseErrors == {"ECONNREFUSED", "ER_QUERY"}

\* C15: an upload writes its blob before it inserts its row, so the key of
\* every documents row is the key of an object in the bucket, in every
\* state; an upload whose insert fails leaves its blob in the bucket and no
\* row, and no row at all has the blob's key unless another upload was
\* stored under the same key.
C15_BlobBeforeRow ==
    [][/\ \A d \in documents' : BlobIn(bucket', d.s3_key)
       /\ \A r \in Reqs :
            /\ (req'[r].route = "/upload"
                  /\ (req'[r].db > 0 \/ req'[r].conn
                        \/ req'[r].pc \in {"getConnection", "query"})) =>
                    /\ BlobIn(bucket', req'[r].key)
                    /\ req'[r].s3 = 1
            /\ (Answers(r) /\ req'[r].route = "/upload"
                  /\ req'[r].res.err \in DatabaseErrors) =>
                    /\ documents' = documents
                    /\ sent' = sent
                    /\ req'[r].docId = 0
                    /\ BlobIn(bucket', req'[r].key)
                    /\ (\A q \in Reqs \ {r} : req[q].key # req[r].key)
                         /\ (\A d \in documents : d.s3_key # req[r].key)
                         => \A d \in documents' : d.s3_key # req'[r].key]_vars

C15_Witness ==
    \E r, q \in Reqs :
        /\ req[r].route = "/upload" /\ req[r].pc = "done"
        /\ req[r].res.err = "ER_QUERY"
        /\ Blob(req[r].key)
        /\ \A d \in documents : d.s3_key # req[r].key
        /\ req[q].route = "/upload" /\ Clean(req[q])
        /\ \E d \in documents : d.id = req[q].docId /\ Blob(d.s3_key)

\* C16: a download with any verified claim of the id of an existing row
\* returns that row's file name and the bytes under its key, whether or not
\* the row's production belongs to the claim's company; what is answered
\* depends only on the token verifying and on the row existing.
C16_DownloadUnscoped ==
    \A r \in Reqs :
        req[r].route = "/download" =>
            /\ req[r].res.status \in {200, 404} => req[r].guard = "next"
            /\ Clean(req[r]) =>
                LET rows == {d \in documents : d.id = req[r].in.id} IN
                IF rows = {}
                THEN req[r].res = Text(404, "Document not found")
                ELSE \E d \in rows :
                        /\ req[r].res.status = 200
                        /\ req[r].res.attachment = d.file_name
                        /\ \E o \in bucket :
                              o.key = d.s3_key /\ o.body = req[r].res.body

C16_Witness ==
    \E r \in Reqs :
        /\ req[r].route = "/download"
        /\ Clean(req[r])
        /\ req[r].res.status = 200
        /\ \E d \in documents :
              /\ d.id = req[r].in.id
              /\ ~Owns(req[r].user.company_id, d)
              /\ req[r].res.attachment = d.file_name

\* The row an upload recorded in sent created.
RowOf(s) == CHOOSE d \in documents : d.id = s.id

\* C17: the key of a blob is made of the millisecond at which it is
\* generated and of the original file name.  Two uploads of files of the
\* same name keyed in the same millisecond get the same key: their two rows
\* reference one blob, which holds what was written last.  Two uploads that
\* differ in the millisecond or in the name get distinct keys.
C17_KeyCollision ==
    [][/\ \A s, t \in sent' :
            (RowOf(s).s3_key = RowOf(t).s3_key)' <=>
                (s.at = t.at /\ s.name = t.name)
       /\ \A r, q \in Reqs :
            (req'[r].key # NoKey /\ req'[q].key # NoKey) =>
                (req'[r].key = req'[q].key <=>
                    /\ req'[r].keyAt = req'[q].keyAt
                    /\ req'[r].in.file.originalname
                         = req'[q].in.file.originalname)
       /\ \A o, u \in bucket' : o.key = u.key => o = u
       /\ \A r \in Reqs :
            (req[r].pc = "s3put" /\ req'[r].pc = "getConnection") =>
                {o \in bucket' : o.key = req[r].key}
                    = {[key |-> req[r].key, body |-> req[r].in.file.content]}
      ]_vars

C17_Witness ==
    \E s, t \in sent :
        /\ s.id # t.id
        /\ s.at = t.at /\ s.name = t.name /\ s.body # t.body
        /\ RowOf(s).s3_key = RowOf(t).s3_key
        /\ \E o \in bucket :
              /\ o.key = RowOf(s).s3_key
              /\ o.body \in {s.body, t.body}
              /\ \A u \in bucket : u.key = o.key => u = o

\* C18: when the client of a download goes away while the body is piped,
\* the read of the object is cancelled: no request whose client has gone
\* has its read open, and once every request is over no read is open.
C18_DownloadCancelled ==
    /\ \A r \in Reqs : req[r].client = "gone" => req[r].read # "open"
    /\ (\A r \in Reqs : req[r].pc \in Over) => proc.reads = 0

\* C19: an upload let through by the guard inserts a row with exactly the
\* production_id of its body, whatever the company of its claim; made with
\* a claim of company A for a production of company B, it creates a row
\* that GET /documents then returns to company B.
C19_UploadUnscoped ==
    [][\A r \in Reqs :
        /\ (Answers(r) /\ req'[r].route = "/upload" /\ Clean(req'[r])) =>
              /\ req'[r].res.status = 200
              /\ \E d \in documents' :
                    /\ d \notin documents
                    /\ d.id = req'[r].docId
                    /\ d.production_id = req[r].in.production_id
                    /\ d.file_name = req[r].in.file.originalname
        /\ (Answers(r) /\ req'[r].route = "/documents" /\ Clean(req'[r])) =>
              \A d \in documents :
                  Owns(req[r].user.company_id, d) =>
                      \E row \in req'[r].res.rows :
                          /\ row.id = d.id
                          /\ row.production_id = d.production_id
                          /\ row.file_name = d.file_name]_vars

C19_Witness ==
    \E r, q \in Reqs :
        /\ req[q].route = "/upload"
        /\ Clean(req[q])
        /\ req[q].user.company_id = 1
        /\ req[q].in.production_id = 2
        /\ req[r].route = "/documents"
        /\ Clean(req[r])
        /\ req[r].user.company_id = 2
        /\ \E row \in req[r].res.rows :
              /\ row.id = req[q].docId
              /\ row.production_id = 2
              /\ row.company_name = "c2"

\* C20: with the database and the bucket answering every call, every
\* request the server has taken is answered in the end, whatever requests
\* came before it: none waits for ever for a connection of the pool and
\* none is left without a response.
C20_ResponseLiveness ==
    \A r \in Reqs : (req[r].pc \notin Over) ~> (req[r].pc = "done")

====
